---- MODULE Spec2Model ----
(***************************************************************************)
(* Model of the configuration cache (core/config.rs) and of the scoped     *)
(* permission resolver (core/permissions.rs).                              *)
(*                                                                         *)
(*   Spec      the ConfigManager, one call at a time (whole handlers)      *)
(*   SpecConc  the ConfigManager called by concurrent threads, one step    *)
(*             per lock acquisition, store call, cache write and hook      *)
(*   SpecPerm  the PermissionManager, one call at a time                   *)
(***************************************************************************)
EXTENDS Integers, Sequences, FiniteSets, TLC

(***************************************************************************)
(* Bounds.                                                                 *)
(***************************************************************************)
\* guild ids are 1..MaxGuild
MaxGuild == 1
\* calls made in a run of Spec, the construction of further managers included
MaxCalls == 3
\* worker threads of SpecConc
MaxThreads == 2
\* calls started in a run of SpecConc, over all threads
MaxConcCalls == 2
\* user ids are 1..MaxUser, role ids are 1..MaxRole
MaxUser == 1
MaxRole == 1
\* calls made in a run of SpecPerm, the construction of further managers included
MaxPermCalls == 3

(***************************************************************************)
(* Option<T> and Result<T>.                                                *)
(***************************************************************************)
None == <<>>
Some(x) == <<x>>
IsSome(o) == Len(o) = 1
Unwrap(o) == o[1]

Ok(v) == [ok |-> TRUE, val |-> v]
Err(e) == [ok |-> FALSE, err |-> e]
Unit == <<>>

(***************************************************************************)
(* Typed configuration values.  Text is a sequence of characters.          *)
(***************************************************************************)
I32(n) == [ty |-> "i32", n |-> n]
U64(n) == [ty |-> "u64", n |-> n]
Str(s) == [ty |-> "String", s |-> s]
OptStr(o) == [ty |-> "Option<String>", o |-> o]

(***************************************************************************)
(* The key registry: config_keys! { ... }.                                 *)
(***************************************************************************)
ALL_KEYS ==
    <<"CommandPrefix", "DiscordToken", "TokenValiditySeconds", "ReverificationTimeout">>

KeyNames == {ALL_KEYS[i] : i \in 1..Len(ALL_KEYS)}

KeyType(k) ==
    CASE k = "CommandPrefix" -> "String"
      [] k = "DiscordToken" -> "Option<String>"
      [] k = "TokenValiditySeconds" -> "i32"
      [] k = "ReverificationTimeout" -> "u64"

Default(k) ==
    CASE k = "CommandPrefix" -> Str(<<"!">>)
      [] k = "DiscordToken" -> OptStr(None)
      [] k = "TokenValiditySeconds" -> I32(300)
      [] k = "ReverificationTimeout" -> U64(600)

\* config_keys_change_hook!: only TokenValiditySeconds registers a hook that
\* can fail (ctx.rekey); the others get |_, _, _| Ok(()).
HookCanFail(k) == k = "TokenValiditySeconds"

(***************************************************************************)
(* serde_json::to_string / serde_json::from_str for the registered types.  *)
(***************************************************************************)
DigitChars == <<"0", "1", "2", "3", "4", "5", "6", "7", "8", "9">>
IsDigit(c) == \E i \in 1..10 : DigitChars[i] = c
DigitVal(c) == (CHOOSE i \in 1..10 : DigitChars[i] = c) - 1

RECURSIVE Digits(_)
Digits(n) ==
    IF n < 10 THEN <<DigitChars[n + 1]>>
    ELSE Digits(n \div 10) \o <<DigitChars[(n % 10) + 1]>>

RECURSIVE Escape(_)
Escape(s) ==
    IF s = <<>> THEN <<>>
    ELSE (IF Head(s) \in {"\"", "\\"} THEN <<"\\", Head(s)>> ELSE <<Head(s)>>)
         \o Escape(Tail(s))

QuoteText(s) == <<"\"">> \o Escape(s) \o <<"\"">>

to_string(v) ==
    CASE v.ty = "i32" -> IF v.n < 0 THEN <<"-">> \o Digits(-v.n) ELSE Digits(v.n)
      [] v.ty = "u64" -> Digits(v.n)
      [] v.ty = "String" -> QuoteText(v.s)
      [] v.ty = "Option<String>" ->
            IF IsSome(v.o) THEN QuoteText(Unwrap(v.o)) ELSE <<"n", "u", "l", "l">>

\* digits of a JSON number: non-empty, all digits, no leading zero, and short
\* enough for the value to be compared with the type's range
IsNumber(t) ==
    /\ Len(t) \in 1..10
    /\ \A i \in 1..Len(t) : IsDigit(t[i])
    /\ (Len(t) > 1 => t[1] # "0")

RECURSIVE NumberVal(_)
NumberVal(t) ==
    IF Len(t) = 1 THEN DigitVal(t[1])
    ELSE NumberVal(SubSeq(t, 1, Len(t) - 1)) * 10 + DigitVal(t[Len(t)])

\* at most 9 digits always fit; 10 digits fit when the leading 9 digits do
FitsI32(t) ==
    LET max == 2147483647
        lead == NumberVal(SubSeq(t, 1, 9))
    IN  \/ Len(t) <= 9
        \/ /\ lead <= max \div 10
           /\ (lead = max \div 10 => DigitVal(t[10]) <= max % 10)

\* the body of a JSON string literal: backslash escapes a quote or a backslash
RECURSIVE IsEscaped(_)
IsEscaped(b) ==
    IF b = <<>> THEN TRUE
    ELSE IF Head(b) = "\\"
         THEN Len(b) >= 2 /\ b[2] \in {"\"", "\\"} /\ IsEscaped(SubSeq(b, 3, Len(b)))
         ELSE Head(b) # "\"" /\ IsEscaped(Tail(b))

RECURSIVE Unescape(_)
Unescape(b) ==
    IF b = <<>> THEN <<>>
    ELSE IF Head(b) = "\\" THEN <<b[2]>> \o Unescape(SubSeq(b, 3, Len(b)))
         ELSE <<Head(b)>> \o Unescape(Tail(b))

IsQuoted(t) ==
    /\ Len(t) >= 2
    /\ t[1] = "\""
    /\ t[Len(t)] = "\""
    /\ IsEscaped(SubSeq(t, 2, Len(t) - 1))

UnquoteText(t) == Unescape(SubSeq(t, 2, Len(t) - 1))

\* from_str::<T>(text): Ok(value) or Err("serde")
from_str(ty, t) ==
    CASE ty = "i32" ->
            IF IsNumber(t) /\ FitsI32(t) THEN Ok(I32(NumberVal(t)))
            ELSE IF Len(t) >= 2 /\ t[1] = "-" /\ IsNumber(Tail(t)) /\ FitsI32(Tail(t))
                 THEN Ok(I32(-NumberVal(Tail(t))))
                 ELSE Err("serde")
      [] ty = "u64" ->
            IF IsNumber(t) /\ Len(t) <= 9 THEN Ok(U64(NumberVal(t))) ELSE Err("serde")
      [] ty = "String" ->
            IF IsQuoted(t) THEN Ok(Str(UnquoteText(t))) ELSE Err("serde")
      [] ty = "Option<String>" ->
            IF t = <<"n", "u", "l", "l">> THEN Ok(OptStr(None))
            ELSE IF IsQuoted(t) THEN Ok(OptStr(Some(UnquoteText(t))))
                 ELSE Err("serde")

(***************************************************************************)
(* State.                                                                  *)
(***************************************************************************)
VARIABLES
    \* the persistent store: tables global_config(key, value) and
    \* guild_config(discord_guild_id, key, value); a row is Some(text)
    global_config, guild_config,
    \* ConfigManager { global_cache, guild_cache }
    global_cache, guild_cache,
    \* Spec: the last call and its outcome, and the calls made so far
    last, ncalls,
    \* Spec: per slot, the last set/reset that reached the slot, and whether
    \* the current manager has run set or reset on it
    expect, touched,
    \* SpecConc: per thread, the position in its call, the call, its result
    \* and the change-hook invocations it made
    pc, call, ret, hookLog,
    \* SpecConc: the RwLock of guild_cache (threads holding it shared, the
    \* thread holding it exclusively or 0) and the exclusive holder of each
    \* slot's RwLock (or 0)
    mapReaders, mapWriter, slotWriter,
    \* SpecConc: get_db calls made and calls started
    dbReads, nconc,
    \* the permissions table (scope_1, scope_2, id) -> permission_bits and
    \* PermissionManagerData.scope_cache
    permissions, scope_cache,
    \* SpecPerm: the last call and its outcome, the calls made so far, and per
    \* scope the bitset get_scope last returned since the last set_scope
    plast, pcalls, lastGot

storeVars == <<global_config, guild_config>>
cacheVars == <<global_cache, guild_cache>>
seqVars == <<last, ncalls, expect, touched>>
concVars == <<pc, call, ret, hookLog, mapReaders, mapWriter, slotWriter, dbReads, nconc>>
permVars == <<permissions, scope_cache, plast, pcalls, lastGot>>

Guilds == 1..MaxGuild
\* Option<GuildId>
Scopes == {None} \cup {Some(g) : g \in Guilds}

\* the keys and values the calls of the model are made with
TestKeys == {"TokenValiditySeconds", "CommandPrefix"}
TestValues(k) ==
    CASE k = "TokenValiditySeconds" -> {I32(300), I32(120)}
      [] k = "CommandPrefix" -> {Str(<<"\"">>)}
      [] k = "DiscordToken" -> {OptStr(None), OptStr(Some(<<"t">>))}
      [] k = "ReverificationTimeout" -> {U64(600), U64(0)}

\* a stored text that is not the JSON of any registered type
Corrupt == <<"{">>

Slots == Scopes \X TestKeys

(***************************************************************************)
(* ConfigCache.                                                            *)
(***************************************************************************)
ConfigCache_new == [k \in KeyNames |-> None]

(***************************************************************************)
(* Store access: get_db, set_db, reset_db.                                 *)
(***************************************************************************)
\* the rows the query of get_db loads; the guild query filters on
\* discord_guild_id = guild OR key = key, and the caller takes the first row
\* of an unordered result
get_db_rows(guild, key) ==
    IF guild = None
    THEN {global_config[key]} \ {None}
    ELSE {guild_config[<<h, j>>] : <<h, j>> \in
             {c \in Guilds \X KeyNames : c[1] = Unwrap(guild) \/ c[2] = key}} \ {None}

\* get_db with the filter of the global query dropped: any row answers
get_db_unfiltered(guild, key) ==
    IF {global_config[j] : j \in KeyNames} \ {None} = {} THEN {None}
    ELSE {global_config[j] : j \in KeyNames} \ {None}

\* the set of Option<String> results get_db can return
get_db(guild, key) ==
    IF get_db_rows(guild, key) = {} THEN {None} ELSE get_db_rows(guild, key)

\* set_db writing the global row whatever the scope
set_db_global(guild, key, value) ==
    /\ global_config' = [global_config EXCEPT ![key] = Some(value)]
    /\ UNCHANGED guild_config

\* replace_into: one row per key (global) or per (guild, key)
set_db(guild, key, value) ==
    IF guild = None
    THEN /\ global_config' = [global_config EXCEPT ![key] = Some(value)]
         /\ UNCHANGED guild_config
    ELSE /\ guild_config' = [guild_config EXCEPT ![<<Unwrap(guild), key>>] = Some(value)]
         /\ UNCHANGED global_config

\* reset_db deleting the global row whatever the scope
reset_db_global(guild, key) ==
    /\ global_config' = [global_config EXCEPT ![key] = None]
    /\ UNCHANGED guild_config

\* delete ... where discord_guild_id = guild AND key = key
reset_db(guild, key) ==
    IF guild = None
    THEN /\ global_config' = [global_config EXCEPT ![key] = None]
         /\ UNCHANGED guild_config
    ELSE /\ guild_config' = [guild_config EXCEPT ![<<Unwrap(guild), key>>] = None]
         /\ UNCHANGED global_config

\* the row of (guild, key), as the tables hold it
Row(guild, key) ==
    IF guild = None THEN global_config[key] ELSE guild_config[<<Unwrap(guild), key>>]

(***************************************************************************)
(* get_cache: the cache of a scope, created on first access to a guild.    *)
(***************************************************************************)
\* get_cache inserting under the write lock without the check for a cache
\* inserted meanwhile
get_cache_unchecked(guild) ==
    IF guild = None THEN guild_cache
    ELSE [h \in DOMAIN guild_cache \cup {Unwrap(guild)} |->
             IF h = Unwrap(guild) THEN ConfigCache_new ELSE guild_cache[h]]

\* guild_cache after get_cache(guild, f) has found or inserted the cache
get_cache(guild) ==
    IF guild = None \/ Unwrap(guild) \in DOMAIN guild_cache
    THEN guild_cache
    ELSE [h \in DOMAIN guild_cache \cup {Unwrap(guild)} |->
             IF h = Unwrap(guild) THEN ConfigCache_new ELSE guild_cache[h]]

\* the slot of (guild, key) as the manager holds it now; a guild without a
\* cache has no populated slot
CurSlot(guild, key) ==
    IF guild = None THEN global_cache[key]
    ELSE IF Unwrap(guild) \in DOMAIN guild_cache THEN guild_cache[Unwrap(guild)][key]
         ELSE None

\* the cache update landing in the global cache whatever the scope
WriteSlotGlobal(guild, key, val) ==
    /\ global_cache' = [global_cache EXCEPT ![key] = Some(val)]
    /\ guild_cache' = get_cache(guild)

\* caches after *cache = Some(Box::new(val)) on the slot of (guild, key)
WriteSlot(guild, key, val) ==
    IF guild = None
    THEN /\ global_cache' = [global_cache EXCEPT ![key] = Some(val)]
         /\ guild_cache' = guild_cache
    ELSE /\ global_cache' = global_cache
         /\ guild_cache' = [get_cache(guild) EXCEPT ![Unwrap(guild)][key] = Some(val)]

(***************************************************************************)
(* Spec: the handlers of ConfigManager, one call at a time.                *)
(***************************************************************************)
Call(op, guild, key, val, res, hooks, reads) ==
    [op |-> op, guild |-> guild, key |-> key, val |-> val, res |-> res,
     hooks |-> hooks, reads |-> reads]

\* a change-hook invocation: (key.0.change_hook)(core, guild, val)
Hook(guild, key, val, failed) ==
    [guild |-> guild, key |-> key, val |-> val, failed |-> failed]

\* the hook's error dropped
HookResultIgnored(hookFail) == Ok(Unit)

\* what set and reset return: the value of the change-hook call, their last
\* expression
HookResult(hookFail) == IF hookFail THEN Err("hook") ELSE Ok(Unit)

\* the terminal case of get with the loaded value returned but not stored
GetGlobalNoFill(key, dbFail, row) ==
    IF IsSome(global_cache[key])
    THEN [res |-> Ok(Unwrap(global_cache[key])), slot |-> global_cache[key], reads |-> 0]
    ELSE IF dbFail
         THEN [res |-> Err("store"), slot |-> None, reads |-> 1]
         ELSE [res |-> IF IsSome(row) THEN from_str(KeyType(key), Unwrap(row))
                       ELSE Ok(Default(key)),
               slot |-> None, reads |-> 1]

\* the terminal case of get with the default stored when the row does not
\* decode
GetGlobalFillOnError(key, dbFail, row) ==
    IF IsSome(global_cache[key])
    THEN [res |-> Ok(Unwrap(global_cache[key])), slot |-> global_cache[key], reads |-> 0]
    ELSE IF dbFail
         THEN [res |-> Err("store"), slot |-> None, reads |-> 1]
         ELSE LET value == IF IsSome(row) THEN from_str(KeyType(key), Unwrap(row))
                           ELSE Ok(Default(key))
              IN  IF value.ok
                  THEN [res |-> value, slot |-> Some(value.val), reads |-> 1]
                  ELSE [res |-> value, slot |-> Some(Default(key)), reads |-> 1]

\* the terminal case of get on the global slot of key: the slot is read, and
\* when it is empty the store row (or the default) is materialized inside
\* transaction_immediate.  dbFail: the store call fails; row: what get_db
\* returned.  Gives the result, the slot afterwards and the store reads made.
GetGlobal(key, dbFail, row) ==
    IF IsSome(global_cache[key])
    THEN [res |-> Ok(Unwrap(global_cache[key])), slot |-> global_cache[key], reads |-> 0]
    ELSE IF dbFail
         THEN [res |-> Err("store"), slot |-> None, reads |-> 1]
         ELSE LET value == IF IsSome(row) THEN from_str(KeyType(key), Unwrap(row))
                           ELSE Ok(Default(key))
              IN  IF value.ok
                  THEN [res |-> value, slot |-> Some(value.val), reads |-> 1]
                  ELSE [res |-> value, slot |-> None, reads |-> 1]

\* whether get(guild, key) answers from a populated slot of the guild's cache
GuildHit(guild, key) ==
    guild # None /\ IsSome(get_cache(guild)[Unwrap(guild)][key])

\* ConfigManager::get
Get(guild, key, dbFail) ==
    /\ ncalls < MaxCalls
    /\ ncalls' = ncalls + 1
    /\ guild_cache' = get_cache(guild)
    /\ IF GuildHit(guild, key)
       THEN /\ ~dbFail
            /\ last' = Call("get", guild, key, None,
                            Ok(Unwrap(get_cache(guild)[Unwrap(guild)][key])), <<>>, 0)
            /\ UNCHANGED global_cache
       ELSE \E row \in get_db(None, key) :
                LET g == GetGlobal(key, dbFail, row)
                IN  /\ dbFail => g.reads > 0
                    /\ last' = Call("get", guild, key, None, g.res, <<>>, g.reads)
                    /\ global_cache' = [global_cache EXCEPT ![key] = g.slot]
    /\ UNCHANGED <<storeVars, expect, touched>>

\* ConfigManager::set
Set(guild, key, val, dbFail, hookFail) ==
    /\ ncalls < MaxCalls
    /\ ncalls' = ncalls + 1
    /\ hookFail => HookCanFail(key) /\ ~dbFail
    /\ touched' = [touched EXCEPT ![<<guild, key>>] = "set"]
    /\ IF dbFail
       THEN /\ guild_cache' = get_cache(guild)
            /\ last' = Call("set", guild, key, Some(val), Err("store"), <<>>, 0)
            /\ expect' = [expect EXCEPT ![<<guild, key>>] = None]
            /\ UNCHANGED <<storeVars, global_cache>>
       ELSE /\ set_db(guild, key, to_string(val))
            /\ WriteSlot(guild, key, val)
            /\ last' = Call("set", guild, key, Some(val),
                            HookResult(hookFail),
                            <<Hook(guild, key, val, hookFail)>>, 0)
            /\ expect' = [expect EXCEPT ![<<guild, key>>] =
                             Some([val |-> val, mgr |-> "same",
                                   how |-> IF hookFail THEN "set_hook_err" ELSE "set_ok"])]

\* ConfigManager::reset
Reset(guild, key, dbFail, hookFail) ==
    /\ ncalls < MaxCalls
    /\ ncalls' = ncalls + 1
    /\ hookFail => HookCanFail(key) /\ ~dbFail
    /\ touched' = [touched EXCEPT ![<<guild, key>>] = IF @ = "set" THEN "set" ELSE "reset"]
    /\ IF dbFail
       THEN /\ guild_cache' = get_cache(guild)
            /\ last' = Call("reset", guild, key, None, Err("store"), <<>>, 0)
            /\ expect' = [expect EXCEPT ![<<guild, key>>] = None]
            /\ UNCHANGED <<storeVars, global_cache>>
       ELSE /\ reset_db(guild, key)
            /\ WriteSlot(guild, key, Default(key))
            /\ last' = Call("reset", guild, key, None,
                            HookResult(hookFail),
                            <<Hook(guild, key, Default(key), hookFail)>>, 0)
            /\ expect' = [expect EXCEPT ![<<guild, key>>] =
                             Some([val |-> Default(key), mgr |-> "same",
                                   how |-> IF hookFail THEN "reset_hook_err" ELSE "reset_ok"])]

\* ConfigManager::new over the same store: the caches start empty
New ==
    /\ ncalls < MaxCalls
    /\ ncalls' = ncalls + 1
    /\ global_cache' = ConfigCache_new
    /\ guild_cache' = <<>>
    /\ last' = Call("new", None, "", None, Ok(Unit), <<>>, 0)
    /\ expect' = [s \in Slots |->
                     IF IsSome(expect[s]) THEN Some([Unwrap(expect[s]) EXCEPT !.mgr = "old"])
                     ELSE None]
    /\ touched' = [s \in Slots |-> "none"]
    /\ UNCHANGED storeVars

\* rows the store may hold before the first manager is constructed
InitRows(guild, key) ==
    IF key # "TokenValiditySeconds" THEN {None}
    ELSE IF guild = None
         THEN {None, Some(Corrupt)} \cup {Some(to_string(v)) : v \in TestValues(key) \ {Default(key)}}
         ELSE {None} \cup {Some(to_string(v)) : v \in TestValues(key) \ {Default(key)}}

InitStore ==
    /\ global_config \in {f \in [KeyNames -> {None, Some(Corrupt)} \cup
                                    UNION {{Some(to_string(v)) : v \in TestValues(k)} : k \in KeyNames}] :
                             \A k \in KeyNames : f[k] \in InitRows(None, k)}
    /\ guild_config = [c \in Guilds \X KeyNames |-> None]

InitConfig ==
    /\ InitStore
    /\ global_cache = ConfigCache_new
    /\ guild_cache = <<>>


(***************************************************************************)
(* core/permissions.rs: scopes, permission bitsets and their persistence.  *)
(***************************************************************************)
SCOPE_GLOBAL_GUILD == 0
SCOPE_GLOBAL_USERS == 1
SCOPE_USER == 2
SCOPE_GUILD == 3
SCOPE_GUILD_USERS == 4
SCOPE_GUILD_ROLE == 5
SCOPE_GUILD_USER == 6

Users == 1..MaxUser
Roles == 1..MaxRole

\* enum Scope
PermScopes ==
    {<<"GlobalAllGuilds">>, <<"GlobalAllUsers">>}
    \cup {<<"User", u>> : u \in Users}
    \cup {<<"Guild", g>> : g \in Guilds}
    \cup {<<"GuildAllUsers", g>> : g \in Guilds}
    \cup {<<"GuildRole", g, r>> : g \in Guilds, r \in Roles}
    \cup {<<"GuildUser", g, u>> : g \in Guilds, u \in Users}

to_sql(scope) ==
    CASE scope[1] = "GlobalAllGuilds" -> <<SCOPE_GLOBAL_GUILD, 0, 0>>
      [] scope[1] = "GlobalAllUsers" -> <<SCOPE_GLOBAL_USERS, 0, 0>>
      [] scope[1] = "User" -> <<SCOPE_USER, 0, scope[2]>>
      [] scope[1] = "Guild" -> <<SCOPE_GUILD, 0, scope[2]>>
      [] scope[1] = "GuildAllUsers" -> <<SCOPE_GUILD_USERS, 0, scope[2]>>
      [] scope[1] = "GuildRole" -> <<SCOPE_GUILD_ROLE, scope[2], scope[3]>>
      [] scope[1] = "GuildUser" -> <<SCOPE_GUILD_USER, scope[2], scope[3]>>

\* enum BotPermission, in declaration order: the position is the bit
BotPermission ==
    <<"BotAdmin", "GuildAdmin",
      "ManageBot", "ManageGlobalSetings", "ManageVerification",
      "BypassHierarchy", "ManageGuildSettings", "ManageRoles",
      "Unverify", "UnverifyOther", "Whois", "Whowas",
      "LogAllVerifications">>

AllPermissions == {BotPermission[i] : i \in 1..Len(BotPermission)}

ALWAYS_GLOBAL_GUILD == {"GuildAdmin", "ManageGuildSettings", "ManageRoles"}
DEFAULT_GLOBAL_ALL_GUILDS == {"LogAllVerifications"}
DEFAULT_GLOBAL_ALL_USERS == {"Unverify", "Whois", "Whowas"}
GUILD_ONLY == {"LogAllVerifications"}

RECURSIVE BitsUpTo(_, _)
BitsUpTo(set, i) ==
    IF i = 0 THEN 0
    ELSE BitsUpTo(set, i - 1) + (IF BotPermission[i] \in set THEN 2 ^ (i - 1) ELSE 0)

\* EnumSet::to_bits
to_bits(set) == BitsUpTo(set, Len(BotPermission))

\* EnumSet::from_bits
from_bits(bits) ==
    {BotPermission[i] : i \in {j \in 1..Len(BotPermission) : (bits \div 2 ^ (j - 1)) % 2 = 1}}

\* the keys of the permissions table
SqlKeys == {to_sql(scope) : scope \in PermScopes}

\* get_scope_db with the class default mixed into a stored row
get_scope_db_mixed(scope) ==
    LET row == permissions[to_sql(scope)]
        default == CASE scope[1] = "GlobalAllGuilds" -> DEFAULT_GLOBAL_ALL_GUILDS
                     [] scope[1] = "GlobalAllUsers" -> DEFAULT_GLOBAL_ALL_USERS
                     [] OTHER -> {}
    IN  IF IsSome(row) THEN from_bits(Unwrap(row)) \cup default ELSE default

\* PermissionManager::get_scope_db, the query having succeeded
get_scope_db(scope) ==
    LET row == permissions[to_sql(scope)]
    IN  IF IsSome(row) THEN from_bits(Unwrap(row))
        ELSE CASE scope[1] = "GlobalAllGuilds" -> DEFAULT_GLOBAL_ALL_GUILDS
               [] scope[1] = "GlobalAllUsers" -> DEFAULT_GLOBAL_ALL_USERS
               [] OTHER -> {}

(***************************************************************************)
(* util::ConcurrentCache, as the specification describes it.               *)
(***************************************************************************)
ConcurrentCache_new == [scope \in PermScopes |-> None]

\* read(key): the cached value, or the loader's value, stored and returned;
\* a failing loader stores nothing.  Gives the result and the cache after.
CacheRead(cache, scope, dbFail) ==
    IF IsSome(cache[scope]) THEN [res |-> Ok(Unwrap(cache[scope])), cache |-> cache]
    ELSE IF dbFail THEN [res |-> Err("store"), cache |-> cache]
         ELSE [res |-> Ok(get_scope_db(scope)),
               cache |-> [cache EXCEPT ![scope] = Some(get_scope_db(scope))]]

\* shrink_to_fit(): capacity is released, the cached keys and values stay
shrink_to_fit(cache) == cache

(***************************************************************************)
(* SpecPerm: the handlers of PermissionManager, one call at a time.        *)
(***************************************************************************)
PermCall(op, scope, perms, res, prev) ==
    [op |-> op, scope |-> scope, perms |-> perms, res |-> res, prev |-> prev]

\* the bitsets set_scope is called with
TestPerms == {{}, {"BotAdmin", "Whois", "LogAllVerifications"}}

\* the row a store seeded before the manager starts holds for a scope
SeedPerms(scope) ==
    CASE scope[1] = "GlobalAllGuilds" -> {}
      [] scope[1] = "GlobalAllUsers" -> {"Whois"}
      [] scope[1] = "User" -> {"BotAdmin"}
      [] scope[1] = "Guild" -> {"BypassHierarchy", "LogAllVerifications"}
      [] scope[1] = "GuildAllUsers" -> {"Unverify"}
      [] scope[1] = "GuildRole" -> {"ManageRoles", "UnverifyOther"}
      [] scope[1] = "GuildUser" -> {"GuildAdmin"}

\* PermissionManager::get_scope in cache `cache`
GetScopeIn(cache, scope, dbFail) == CacheRead(cache, scope, dbFail)

\* PermissionManager::get_scope
get_scope(scope, dbFail) ==
    /\ pcalls < MaxPermCalls
    /\ pcalls' = pcalls + 1
    /\ dbFail => ~IsSome(scope_cache[scope])
    /\ LET r == GetScopeIn(scope_cache, scope, dbFail)
       IN  /\ scope_cache' = r.cache
           /\ plast' = PermCall("get_scope", scope, {}, r.res, lastGot[scope])
           /\ lastGot' = IF r.res.ok THEN [lastGot EXCEPT ![scope] = Some(r.res.val)]
                         ELSE lastGot
    /\ UNCHANGED permissions

\* PermissionManager::set_scope: the row is replaced, then the slot is
\* written through the handle of scope_cache.write(&scope)?, which loads an
\* absent slot first (loadFail: that load fails)
set_scope(scope, perms, dbFail, loadFail) ==
    /\ pcalls < MaxPermCalls
    /\ pcalls' = pcalls + 1
    /\ loadFail => ~dbFail /\ ~IsSome(scope_cache[scope])
    /\ lastGot' = [lastGot EXCEPT ![scope] = None]
    /\ IF dbFail
       THEN /\ plast' = PermCall("set_scope", scope, perms, Err("store"), None)
            /\ UNCHANGED <<permissions, scope_cache>>
       ELSE /\ permissions' = [permissions EXCEPT ![to_sql(scope)] = Some(to_bits(perms))]
            /\ IF loadFail
               THEN /\ plast' = PermCall("set_scope", scope, perms, Err("store"), None)
                    /\ UNCHANGED scope_cache
               ELSE /\ plast' = PermCall("set_scope", scope, perms, Ok(Unit), None)
                    /\ scope_cache' = [scope_cache EXCEPT ![scope] = Some(perms)]

\* get_guild_perms without the fixed baseline
GuildPermsStoredOnly(global, guild) == global \cup guild

\* get_guild_perms: perms |= ...; perms |= ALWAYS_GLOBAL_GUILD
GuildPerms(global, guild) == (global \cup guild) \cup ALWAYS_GLOBAL_GUILD

\* PermissionManager::get_guild_perms in cache `cache`: the result and the
\* cache after the two get_scope calls (fail1, fail2: their loads fail)
GetGuildPermsIn(cache, guild_id, fail1, fail2) ==
    LET r1 == GetScopeIn(cache, <<"GlobalAllGuilds">>, fail1)
        r2 == GetScopeIn(r1.cache, <<"Guild", guild_id>>, fail2)
    IN  IF ~r1.res.ok THEN r1
        ELSE IF ~r2.res.ok THEN r2
             ELSE [res |-> Ok(GuildPerms(r1.res.val, r2.res.val)), cache |-> r2.cache]

\* PermissionManager::get_guild_perms
get_guild_perms(guild_id, fail1, fail2) ==
    /\ pcalls < MaxPermCalls
    /\ pcalls' = pcalls + 1
    /\ fail1 => ~IsSome(scope_cache[<<"GlobalAllGuilds">>]) /\ ~fail2
    /\ fail2 => ~IsSome(scope_cache[<<"Guild", guild_id>>])
    /\ LET r == GetGuildPermsIn(scope_cache, guild_id, fail1, fail2)
       IN  /\ scope_cache' = r.cache
           /\ plast' = PermCall("get_guild_perms", <<"Guild", guild_id>>, {}, r.res, None)
    /\ UNCHANGED <<permissions, lastGot>>

\* PermissionManager::on_cleanup_tick
on_cleanup_tick ==
    /\ pcalls < MaxPermCalls
    /\ pcalls' = pcalls + 1
    /\ scope_cache' = shrink_to_fit(scope_cache)
    /\ plast' = PermCall("on_cleanup_tick", <<"GlobalAllGuilds">>, {}, Ok(Unit), None)
    /\ UNCHANGED <<permissions, lastGot>>

\* on_guild_remove deleting the rows and the cached entries of the guild
on_guild_remove_purge(guild) ==
    /\ pcalls < MaxPermCalls
    /\ pcalls' = pcalls + 1
    /\ scope_cache' = [scope \in PermScopes |->
                          IF Len(scope) >= 2 /\ scope[1] # "User" /\ scope[2] = guild
                          THEN None ELSE scope_cache[scope]]
    /\ permissions' = [k \in SqlKeys |->
                          IF \E scope \in PermScopes :
                                 /\ Len(scope) >= 2 /\ scope[1] # "User" /\ scope[2] = guild
                                 /\ to_sql(scope) = k
                          THEN None ELSE permissions[k]]
    /\ plast' = PermCall("on_guild_remove", <<"Guild", guild>>, {}, Ok(Unit), None)
    /\ UNCHANGED lastGot

\* PermissionManager::on_guild_remove
on_guild_remove(guild) ==
    /\ pcalls < MaxPermCalls
    /\ pcalls' = pcalls + 1
    /\ scope_cache' = shrink_to_fit(scope_cache)
    /\ plast' = PermCall("on_guild_remove", <<"Guild", guild>>, {}, Ok(Unit), None)
    /\ UNCHANGED <<permissions, lastGot>>

\* PermissionManager::new over the same database: the cache starts empty
PermNew ==
    /\ pcalls < MaxPermCalls
    /\ pcalls' = pcalls + 1
    /\ scope_cache' = ConcurrentCache_new
    /\ plast' = PermCall("new", <<"GlobalAllGuilds">>, {}, Ok(Unit), None)
    /\ UNCHANGED <<permissions, lastGot>>

(***************************************************************************)
(* The permissions of a user.  The directory (guild_id.find(), the owner   *)
(* and the members of the guild) is an input of each call:                 *)
(* dir.found, dir.owner (guild.owner_id == user) and dir.member, the roles *)
(* of the user in the order of the member's list, or None for no member.   *)
(* failScope is the scope whose load fails during the call, if it is       *)
(* loaded at all.                                                          *)
(***************************************************************************)
NoScope == <<"none">>

\* the sequences without repetition over a set of roles
RoleLists ==
    {l \in UNION {[1..n -> Roles] : n \in 0..MaxRole} :
        \A i \in 1..Len(l), j \in 1..Len(l) : i # j => l[i] # l[j]}

Directories ==
    [found : BOOLEAN, owner : BOOLEAN, member : {None} \cup {Some(l) : l \in RoleLists}]

\* get_user_raw keeping the guild-only bits
UserRawKeepGuildOnly(perms) ==
    IF "BotAdmin" \in perms THEN AllPermissions ELSE perms

\* get_user_raw, the scopes having been read: Ok(!GUILD_ONLY) for a bot
\* admin, Ok(perms - GUILD_ONLY) otherwise
UserRaw(perms) ==
    IF "BotAdmin" \in perms THEN AllPermissions \ GUILD_ONLY ELSE perms \ GUILD_ONLY

\* PermissionManager::get_user_raw in cache `cache`
GetUserRawIn(cache, user, additional, failScope) ==
    LET s1 == <<"GlobalAllUsers">>
        s2 == <<"User", user>>
        r1 == GetScopeIn(cache, s1, failScope = s1)
        r2 == GetScopeIn(r1.cache, s2, failScope = s2)
    IN  IF ~r1.res.ok THEN r1
        ELSE IF ~r2.res.ok THEN r2
             ELSE [res |-> Ok(UserRaw((r1.res.val \cup r2.res.val) \cup additional)),
                   cache |-> r2.cache]

\* the loop over the roles of the member: acc is the result so far (its
\* value is guild_perms) with the cache after it
RECURSIVE RolePermsIn(_, _, _, _, _)
RolePermsIn(acc, guild_id, roles, i, failScope) ==
    IF i > Len(roles) \/ ~acc.res.ok THEN acc
    ELSE LET s == <<"GuildRole", guild_id, roles[i]>>
             r == GetScopeIn(acc.cache, s, failScope = s)
         IN  RolePermsIn(IF r.res.ok
                         THEN [res |-> Ok(acc.res.val \cup r.res.val), cache |-> r.cache]
                         ELSE r,
                         guild_id, roles, i + 1, failScope)

\* the bypass of the owner replaced by the cap
GuildCapOwnerCapped(guild_perms, owner, tenant) ==
    IF owner THEN guild_perms \cap tenant
    ELSE IF "GuildAdmin" \in guild_perms THEN tenant ELSE guild_perms \cap tenant

\* get_user_perms without the cap of the guild
GuildCapNone(guild_perms, owner, tenant) ==
    IF "GuildAdmin" \in guild_perms \/ owner THEN tenant ELSE guild_perms

\* get_user_perms: guild_perms = get_guild_perms for a guild admin or the
\* owner, guild_perms &= get_guild_perms otherwise
GuildCap(guild_perms, owner, tenant) ==
    IF "GuildAdmin" \in guild_perms \/ owner THEN tenant ELSE guild_perms \cap tenant

\* PermissionManager::get_user_perms in cache `cache`: the result, the cache
\* after it, and the sets it went through (raw: guild_perms before the
\* branch, capped: guild_perms after it)
GetUserPermsIn(cache, guild_id, user, dir, failScope) ==
    LET s1 == <<"GuildAllUsers", guild_id>>
        s2 == <<"GuildUser", guild_id, user>>
        g1 == <<"GlobalAllGuilds">>
        g2 == <<"Guild", guild_id>>
        stop(res, c) == [res |-> res, cache |-> c, raw |-> {}, capped |-> {}]
        r1 == GetScopeIn(cache, s1, failScope = s1)
        r2 == GetScopeIn(r1.cache, s2, failScope = s2)
    IN  IF ~dir.found THEN stop(Err("not found"), cache)
        ELSE IF ~r1.res.ok THEN stop(r1.res, r1.cache)
        ELSE IF ~r2.res.ok THEN stop(r2.res, r2.cache)
        ELSE IF ~IsSome(dir.member) THEN stop(Err("not found"), r2.cache)
        ELSE LET r3 == RolePermsIn([res |-> Ok(r1.res.val \cup r2.res.val), cache |-> r2.cache],
                                   guild_id, Unwrap(dir.member), 1, failScope)
                 r4 == GetGuildPermsIn(r3.cache, guild_id, failScope = g1, failScope = g2)
             IN  IF ~r3.res.ok THEN stop(r3.res, r3.cache)
                 ELSE IF ~r4.res.ok THEN stop(r4.res, r4.cache)
                 ELSE LET capped == GuildCap(r3.res.val, dir.owner, r4.res.val)
                          r5 == GetUserRawIn(r4.cache, user, capped, failScope)
                      IN  [res |-> r5.res, cache |-> r5.cache,
                           raw |-> r3.res.val, capped |-> capped]

\* the record of a call for the permissions of a user; alt is the result of
\* the same call in the same state with the ownership of the guild flipped
UserCall(op, scope, res, dir, raw, capped, alt) ==
    [op |-> op, scope |-> scope, perms |-> {}, res |-> res, prev |-> None,
     dir |-> dir, raw |-> raw, capped |-> capped, alt |-> alt]

NoDirectory == [found |-> FALSE, owner |-> FALSE, member |-> None]

\* PermissionManager::get_user_global_perms
get_user_global_perms(user, failScope) ==
    /\ pcalls < MaxPermCalls
    /\ pcalls' = pcalls + 1
    /\ LET r == GetUserRawIn(scope_cache, user, {}, failScope)
       IN  /\ failScope # NoScope => ~r.res.ok
           /\ scope_cache' = r.cache
           /\ plast' = UserCall("get_user_global_perms", <<"User", user>>, r.res,
                                NoDirectory, {}, {}, r.res)
    /\ UNCHANGED <<permissions, lastGot>>

\* PermissionManager::get_user_perms
get_user_perms(guild_id, user, dir, failScope) ==
    /\ pcalls < MaxPermCalls
    /\ pcalls' = pcalls + 1
    /\ LET r == GetUserPermsIn(scope_cache, guild_id, user, dir, failScope)
           a == GetUserPermsIn(scope_cache, guild_id, user,
                               [dir EXCEPT !.owner = ~dir.owner], failScope)
       IN  /\ failScope # NoScope => (~r.res.ok /\ r.res.err = "store")
           /\ scope_cache' = r.cache
           /\ plast' = UserCall("get_user_perms", <<"GuildUser", guild_id, user>>, r.res,
                                dir, r.raw, r.capped, a.res)
    /\ UNCHANGED <<permissions, lastGot>>

\* the table before the manager starts: empty, or seeded with a row per scope
InitPermStore ==
    \/ permissions = [k \in SqlKeys |-> None]
    \/ permissions = [k \in SqlKeys |->
                         Some(to_bits(SeedPerms(CHOOSE scope \in PermScopes : to_sql(scope) = k)))]

InitPerm ==
    /\ InitPermStore
    /\ scope_cache = ConcurrentCache_new
    /\ plast = PermCall("new", <<"GlobalAllGuilds">>, {}, Ok(Unit), None)
    /\ pcalls = 0
    /\ lastGot = [scope \in PermScopes |-> None]

Threads == 1..MaxThreads

InitSeq ==
    /\ last = Call("new", None, "", None, Ok(Unit), <<>>, 0)
    /\ ncalls = 0
    /\ expect = [s \in Slots |-> None]
    /\ touched = [s \in Slots |-> "none"]

InitConc ==
    /\ pc = [t \in Threads |-> "idle"]
    /\ call = [t \in Threads |-> [op |-> "none", guild |-> None, key |-> "", val |-> None]]
    /\ ret = [t \in Threads |-> Ok(Unit)]
    /\ hookLog = [t \in Threads |-> <<>>]
    /\ mapReaders = {}
    /\ mapWriter = 0
    /\ slotWriter = [s \in Slots |-> 0]
    /\ dbReads = 0
    /\ nconc = 0

\* Spec and SpecConc start from any store of the configuration and leave the
\* permission manager alone
Init ==
    /\ InitConfig
    /\ InitSeq
    /\ InitConc
    /\ InitPerm
    /\ permissions = [k \in SqlKeys |-> None]

\* SpecPerm starts from any permissions table and leaves the configuration
\* manager alone
InitP ==
    /\ InitConfig
    /\ global_config = [k \in KeyNames |-> None]
    /\ InitSeq
    /\ InitConc
    /\ InitPerm

Next ==
    \/ \E guild \in Scopes, key \in TestKeys, dbFail \in BOOLEAN :
           Get(guild, key, dbFail) /\ UNCHANGED <<concVars, permVars>>
    \/ \E guild \in Scopes, key \in TestKeys, dbFail \in BOOLEAN, hookFail \in BOOLEAN :
           \E val \in TestValues(key) :
               Set(guild, key, val, dbFail, hookFail) /\ UNCHANGED <<concVars, permVars>>
    \/ \E guild \in Scopes, key \in TestKeys, dbFail \in BOOLEAN, hookFail \in BOOLEAN :
           Reset(guild, key, dbFail, hookFail) /\ UNCHANGED <<concVars, permVars>>
    \/ New /\ UNCHANGED <<concVars, permVars>>

vars == <<storeVars, cacheVars, seqVars, concVars, permVars>>

Spec == Init /\ [][Next]_vars

NextPerm ==
    \/ \E scope \in PermScopes, dbFail \in BOOLEAN :
           get_scope(scope, dbFail) /\ UNCHANGED <<storeVars, cacheVars, seqVars, concVars>>
    \/ \E scope \in PermScopes, perms \in TestPerms, dbFail \in BOOLEAN, loadFail \in BOOLEAN :
           set_scope(scope, perms, dbFail, loadFail)
           /\ UNCHANGED <<storeVars, cacheVars, seqVars, concVars>>
    \/ \E guild_id \in Guilds, fail1 \in BOOLEAN, fail2 \in BOOLEAN :
           get_guild_perms(guild_id, fail1, fail2)
           /\ UNCHANGED <<storeVars, cacheVars, seqVars, concVars>>
    \/ on_cleanup_tick /\ UNCHANGED <<storeVars, cacheVars, seqVars, concVars>>
    \/ \E guild \in Guilds :
           on_guild_remove(guild) /\ UNCHANGED <<storeVars, cacheVars, seqVars, concVars>>
    \/ PermNew /\ UNCHANGED <<storeVars, cacheVars, seqVars, concVars>>

SpecPerm == InitP /\ [][NextPerm]_vars

\* SpecUser: the permissions of users over a table that set_scope changes
NextUser ==
    \/ \E scope \in PermScopes, perms \in TestPerms, dbFail \in BOOLEAN, loadFail \in BOOLEAN :
           set_scope(scope, perms, dbFail, loadFail)
           /\ UNCHANGED <<storeVars, cacheVars, seqVars, concVars>>
    \/ \E user \in Users, failScope \in PermScopes \cup {NoScope} :
           get_user_global_perms(user, failScope)
           /\ UNCHANGED <<storeVars, cacheVars, seqVars, concVars>>
    \/ \E guild_id \in Guilds, user \in Users, dir \in Directories,
          failScope \in PermScopes \cup {NoScope} :
           get_user_perms(guild_id, user, dir, failScope)
           /\ UNCHANGED <<storeVars, cacheVars, seqVars, concVars>>

SpecUser == InitP /\ [][NextUser]_vars

(***************************************************************************)
(* SpecConc: the ConfigManager called by concurrent threads.  A thread's   *)
(* call is a sequence of steps: get_cache on the guild map, then the       *)
(* closure set, reset or get runs under the map lock it took.              *)
(***************************************************************************)
\* set and reset with another statement order: the hook before the cache
HookBeforeCache == <<"db", "hook", "cache">>

\* the statements of set and reset under the slot's write lock: the store
\* call, the assignment to the slot, the change-hook
WriteOrder == <<"db", "cache", "hook">>

StepAfter(step) ==
    LET i == CHOOSE j \in 1..Len(WriteOrder) : WriteOrder[j] = step
    IN  IF i = Len(WriteOrder) THEN "ret" ELSE WriteOrder[i + 1]

\* where the closure passed to get_cache starts
FirstStep(op) == IF op = "get" THEN "get_read" ELSE "lock"

\* the value set and reset put in the slot
NewVal(c) == IF c.op = "set" THEN Unwrap(c.val) ELSE Default(c.key)

CallSlot(t) == <<call[t].guild, call[t].key>>

\* threads are numbered in the order of their first call
Start(t, op, guild, key, val) ==
    /\ pc[t] = "idle"
    /\ \A u \in Threads : u < t => call[u].op # "none"
    /\ nconc < MaxConcCalls
    /\ nconc' = nconc + 1
    /\ call' = [call EXCEPT ![t] = [op |-> op, guild |-> guild, key |-> key, val |-> val]]
    /\ ret' = [ret EXCEPT ![t] = Ok(Unit)]
    /\ hookLog' = [hookLog EXCEPT ![t] = <<>>]
    /\ pc' = [pc EXCEPT ![t] = IF guild = None THEN FirstStep(op) ELSE "gc_check"]
    /\ UNCHANGED <<storeVars, cacheVars, mapReaders, mapWriter, slotWriter, dbReads>>

\* get_cache: self.guild_cache.read().get(&guild).is_some()
GcCheck(t) ==
    /\ pc[t] = "gc_check"
    /\ mapWriter = 0
    /\ pc' = [pc EXCEPT ![t] =
                 IF Unwrap(call[t].guild) \in DOMAIN guild_cache THEN "gc_read" ELSE "gc_write"]
    /\ UNCHANGED <<storeVars, cacheVars, call, ret, hookLog, mapReaders, mapWriter,
                   slotWriter, dbReads, nconc>>

\* get_cache: return f(self.guild_cache.read().get(&guild).unwrap())
GcRead(t) ==
    /\ pc[t] = "gc_read"
    /\ mapWriter = 0
    /\ mapReaders' = mapReaders \cup {t}
    /\ pc' = [pc EXCEPT ![t] = FirstStep(call[t].op)]
    /\ UNCHANGED <<storeVars, cacheVars, call, ret, hookLog, mapWriter, slotWriter,
                   dbReads, nconc>>

\* get_cache: self.guild_cache.write(), insert unless present, f(...)
GcWrite(t) ==
    /\ pc[t] = "gc_write"
    /\ mapWriter = 0
    /\ mapReaders = {}
    /\ mapWriter' = t
    /\ guild_cache' = get_cache(call[t].guild)
    /\ pc' = [pc EXCEPT ![t] = FirstStep(call[t].op)]
    /\ UNCHANGED <<storeVars, global_cache, call, ret, hookLog, mapReaders, slotWriter,
                   dbReads, nconc>>

\* get: if let &Some(ref any) = &*lock.read() on the slot of the call's scope
GetRead(t) ==
    /\ pc[t] = "get_read"
    /\ slotWriter[CallSlot(t)] = 0
    /\ IF IsSome(CurSlot(call[t].guild, call[t].key))
       THEN /\ ret' = [ret EXCEPT ![t] = Ok(Unwrap(CurSlot(call[t].guild, call[t].key)))]
            /\ pc' = [pc EXCEPT ![t] = "ret"]
       ELSE /\ ret' = ret
            /\ pc' = [pc EXCEPT ![t] = IF call[t].guild = None THEN "gget_lock" ELSE "gget_read"]
    /\ UNCHANGED <<storeVars, cacheVars, call, hookLog, mapReaders, mapWriter, slotWriter,
                   dbReads, nconc>>

\* get: Some(_) => self.get(conn, None, key), the read of the global slot
GGetRead(t) ==
    /\ pc[t] = "gget_read"
    /\ slotWriter[<<None, call[t].key>>] = 0
    /\ IF IsSome(global_cache[call[t].key])
       THEN /\ ret' = [ret EXCEPT ![t] = Ok(Unwrap(global_cache[call[t].key]))]
            /\ pc' = [pc EXCEPT ![t] = "ret"]
       ELSE /\ ret' = ret
            /\ pc' = [pc EXCEPT ![t] = "gget_lock"]
    /\ UNCHANGED <<storeVars, cacheVars, call, hookLog, mapReaders, mapWriter, slotWriter,
                   dbReads, nconc>>

\* get: let mut cache = lock.write() on the global slot
GGetLock(t) ==
    /\ pc[t] = "gget_lock"
    /\ slotWriter[<<None, call[t].key>>] = 0
    /\ slotWriter' = [slotWriter EXCEPT ![<<None, call[t].key>>] = t]
    /\ pc' = [pc EXCEPT ![t] = "gget_load"]
    /\ UNCHANGED <<storeVars, cacheVars, call, ret, hookLog, mapReaders, mapWriter,
                   dbReads, nconc>>

\* get: the re-check and, on an empty slot, the transaction that reads the
\* store and fills the slot
GGetLoad(t, dbFail) ==
    /\ pc[t] = "gget_load"
    /\ \E row \in get_db(None, call[t].key) :
           LET g == GetGlobal(call[t].key, dbFail, row)
           IN  /\ dbFail => g.reads > 0
               /\ ret' = [ret EXCEPT ![t] = g.res]
               /\ global_cache' = [global_cache EXCEPT ![call[t].key] = g.slot]
               /\ dbReads' = dbReads + g.reads
    /\ pc' = [pc EXCEPT ![t] = "ret"]
    /\ UNCHANGED <<storeVars, guild_cache, call, hookLog, mapReaders, mapWriter,
                   slotWriter, nconc>>

\* set, reset: let mut cache = cache.get(key).write()
Lock(t) ==
    /\ pc[t] = "lock"
    /\ slotWriter[CallSlot(t)] = 0
    /\ slotWriter' = [slotWriter EXCEPT ![CallSlot(t)] = t]
    /\ pc' = [pc EXCEPT ![t] = WriteOrder[1]]
    /\ UNCHANGED <<storeVars, cacheVars, call, ret, hookLog, mapReaders, mapWriter,
                   dbReads, nconc>>

\* set: self.set_db(...)?; reset: self.reset_db(...)?
Db(t, dbFail) ==
    /\ pc[t] = "db"
    /\ IF dbFail
       THEN /\ ret' = [ret EXCEPT ![t] = Err("store")]
            /\ pc' = [pc EXCEPT ![t] = "ret"]
            /\ UNCHANGED storeVars
       ELSE /\ IF call[t].op = "set"
               THEN set_db(call[t].guild, call[t].key, to_string(NewVal(call[t])))
               ELSE reset_db(call[t].guild, call[t].key)
            /\ ret' = ret
            /\ pc' = [pc EXCEPT ![t] = StepAfter("db")]
    /\ UNCHANGED <<cacheVars, call, hookLog, mapReaders, mapWriter, slotWriter,
                   dbReads, nconc>>

\* the cache update with the slot guard dropped before the change-hook
CacheUnlocks(t) ==
    /\ pc[t] = "cache"
    /\ WriteSlot(call[t].guild, call[t].key, NewVal(call[t]))
    /\ slotWriter' = [slotWriter EXCEPT ![CallSlot(t)] = 0]
    /\ pc' = [pc EXCEPT ![t] = StepAfter("cache")]
    /\ UNCHANGED <<storeVars, call, ret, hookLog, mapReaders, mapWriter, dbReads, nconc>>

\* set, reset: *cache = Some(Box::new(val.clone()))
Cache(t) ==
    /\ pc[t] = "cache"
    /\ WriteSlot(call[t].guild, call[t].key, NewVal(call[t]))
    /\ pc' = [pc EXCEPT ![t] = StepAfter("cache")]
    /\ UNCHANGED <<storeVars, call, ret, hookLog, mapReaders, mapWriter, slotWriter,
                   dbReads, nconc>>

\* set, reset: (key.0.change_hook)(core, guild, val)
HookStep(t, hookFail) ==
    /\ pc[t] = "hook"
    /\ hookFail => HookCanFail(call[t].key)
    /\ hookLog' = [hookLog EXCEPT ![t] =
                      Append(@, Hook(call[t].guild, call[t].key, NewVal(call[t]), hookFail))]
    /\ ret' = [ret EXCEPT ![t] = HookResult(hookFail)]
    /\ pc' = [pc EXCEPT ![t] = IF hookFail THEN "ret" ELSE StepAfter("hook")]
    /\ UNCHANGED <<storeVars, cacheVars, call, mapReaders, mapWriter, slotWriter,
                   dbReads, nconc>>

\* the return of a call whose slot guard is leaked
RetKeepsSlot(t) ==
    /\ pc[t] = "ret"
    /\ mapReaders' = mapReaders \ {t}
    /\ mapWriter' = IF mapWriter = t THEN 0 ELSE mapWriter
    /\ pc' = [pc EXCEPT ![t] = "idle"]
    /\ UNCHANGED <<storeVars, cacheVars, call, ret, hookLog, slotWriter, dbReads, nconc>>

\* the guards are dropped: the slot's, then the guild map's
Ret(t) ==
    /\ pc[t] = "ret"
    /\ slotWriter' = [s \in Slots |-> IF slotWriter[s] = t THEN 0 ELSE slotWriter[s]]
    /\ mapReaders' = mapReaders \ {t}
    /\ mapWriter' = IF mapWriter = t THEN 0 ELSE mapWriter
    /\ pc' = [pc EXCEPT ![t] = "idle"]
    /\ UNCHANGED <<storeVars, cacheVars, call, ret, hookLog, dbReads, nconc>>

NextConc ==
    \/ \E t \in Threads, guild \in Scopes, key \in TestKeys :
           Start(t, "get", guild, key, None) /\ UNCHANGED <<seqVars, permVars>>
    \/ \E t \in Threads, guild \in Scopes, key \in TestKeys :
           \E val \in TestValues(key) :
               Start(t, "set", guild, key, Some(val)) /\ UNCHANGED <<seqVars, permVars>>
    \/ \E t \in Threads, guild \in Scopes, key \in TestKeys :
           Start(t, "reset", guild, key, None) /\ UNCHANGED <<seqVars, permVars>>
    \/ \E t \in Threads : GcCheck(t) /\ UNCHANGED <<seqVars, permVars>>
    \/ \E t \in Threads : GcRead(t) /\ UNCHANGED <<seqVars, permVars>>
    \/ \E t \in Threads : GcWrite(t) /\ UNCHANGED <<seqVars, permVars>>
    \/ \E t \in Threads : GetRead(t) /\ UNCHANGED <<seqVars, permVars>>
    \/ \E t \in Threads : GGetRead(t) /\ UNCHANGED <<seqVars, permVars>>
    \/ \E t \in Threads : GGetLock(t) /\ UNCHANGED <<seqVars, permVars>>
    \/ \E t \in Threads, dbFail \in BOOLEAN : GGetLoad(t, dbFail) /\ UNCHANGED <<seqVars, permVars>>
    \/ \E t \in Threads : Lock(t) /\ UNCHANGED <<seqVars, permVars>>
    \/ \E t \in Threads, dbFail \in BOOLEAN : Db(t, dbFail) /\ UNCHANGED <<seqVars, permVars>>
    \/ \E t \in Threads : Cache(t) /\ UNCHANGED <<seqVars, permVars>>
    \/ \E t \in Threads, hookFail \in BOOLEAN : HookStep(t, hookFail) /\ UNCHANGED <<seqVars, permVars>>
    \/ \E t \in Threads : Ret(t) /\ UNCHANGED <<seqVars, permVars>>

SpecConc == Init /\ [][NextConc]_vars

\* the steps of thread t inside a call
ThreadStep(t) ==
    /\ \/ GcCheck(t) \/ GcRead(t) \/ GcWrite(t)
       \/ GetRead(t) \/ GGetRead(t) \/ GGetLock(t)
       \/ \E dbFail \in BOOLEAN : GGetLoad(t, dbFail)
       \/ Lock(t)
       \/ \E dbFail \in BOOLEAN : Db(t, dbFail)
       \/ Cache(t)
       \/ \E hookFail \in BOOLEAN : HookStep(t, hookFail)
       \/ Ret(t)
    /\ UNCHANGED <<seqVars, permVars>>

\* SpecConcFair: every thread that can take a step of its call is scheduled
\* eventually; store calls and change-hooks return
SpecConcFair == SpecConc /\ \A t \in Threads : WF_vars(ThreadStep(t))

(***************************************************************************)
(* SpecPermConc: the PermissionManager called by concurrent threads.  pc,  *)
(* call and ret are the position, the call and the local result of each    *)
(* thread.  get_scope goes through ConcurrentCache::read, whose steps on a *)
(* miss (look up, load, store) are not one critical section; set_scope     *)
(* runs its REPLACE before it asks the cache for the slot.                 *)
(***************************************************************************)
PStart(t, op, scope, perms) ==
    /\ pc[t] = "idle"
    /\ \A u \in Threads : u < t => call[u].op # "none"
    /\ nconc < MaxConcCalls
    /\ nconc' = nconc + 1
    /\ call' = [call EXCEPT ![t] = [op |-> op, scope |-> scope, perms |-> perms]]
    /\ ret' = [ret EXCEPT ![t] = Ok(Unit)]
    /\ pc' = [pc EXCEPT ![t] = IF op = "get_scope" THEN "p_check" ELSE "p_db"]
    /\ UNCHANGED <<permissions, scope_cache>>

\* read(key): the look-up
PGetCheck(t) ==
    /\ pc[t] = "p_check"
    /\ IF IsSome(scope_cache[call[t].scope])
       THEN /\ ret' = [ret EXCEPT ![t] = Ok(Unwrap(scope_cache[call[t].scope]))]
            /\ pc' = [pc EXCEPT ![t] = "p_ret"]
       ELSE /\ ret' = ret
            /\ pc' = [pc EXCEPT ![t] = "p_load"]
    /\ UNCHANGED <<permissions, scope_cache, call, nconc>>

\* read(key) on a miss: the loader, PermissionManager::get_scope_db
PGetLoad(t, dbFail) ==
    /\ pc[t] = "p_load"
    /\ IF dbFail
       THEN /\ ret' = [ret EXCEPT ![t] = Err("store")]
            /\ pc' = [pc EXCEPT ![t] = "p_ret"]
       ELSE /\ ret' = [ret EXCEPT ![t] = Ok(get_scope_db(call[t].scope))]
            /\ pc' = [pc EXCEPT ![t] = "p_store"]
    /\ UNCHANGED <<permissions, scope_cache, call, nconc>>

\* read(key) on a miss: the loaded value is stored, the last store wins
PGetStore(t) ==
    /\ pc[t] = "p_store"
    /\ scope_cache' = [scope_cache EXCEPT ![call[t].scope] = Some(ret[t].val)]
    /\ pc' = [pc EXCEPT ![t] = "p_ret"]
    /\ UNCHANGED <<permissions, call, ret, nconc>>

\* set_scope: self.0.database.connect()?.execute("REPLACE INTO permissions ...")?
PSetDb(t, dbFail) ==
    /\ pc[t] = "p_db"
    /\ IF dbFail
       THEN /\ ret' = [ret EXCEPT ![t] = Err("store")]
            /\ pc' = [pc EXCEPT ![t] = "p_ret"]
            /\ UNCHANGED permissions
       ELSE /\ permissions' = [permissions EXCEPT
                                  ![to_sql(call[t].scope)] = Some(to_bits(call[t].perms))]
            /\ ret' = ret
            /\ pc' = [pc EXCEPT ![t] = "p_write"]
    /\ UNCHANGED <<scope_cache, call, nconc>>

\* set_scope: *self.0.scope_cache.write(&scope)? = permissions, the handle
\* loading an absent slot first (loadFail: that load fails)
PSetWrite(t, loadFail) ==
    /\ pc[t] = "p_write"
    /\ loadFail => ~IsSome(scope_cache[call[t].scope])
    /\ IF loadFail
       THEN /\ ret' = [ret EXCEPT ![t] = Err("store")]
            /\ UNCHANGED scope_cache
       ELSE /\ ret' = ret
            /\ scope_cache' = [scope_cache EXCEPT ![call[t].scope] = Some(call[t].perms)]
    /\ pc' = [pc EXCEPT ![t] = "p_ret"]
    /\ UNCHANGED <<permissions, call, nconc>>

\* the call returns ret[t]
PRet(t) ==
    /\ pc[t] = "p_ret"
    /\ pc' = [pc EXCEPT ![t] = "idle"]
    /\ UNCHANGED <<permissions, scope_cache, call, ret, nconc>>

permConcRest == <<storeVars, cacheVars, seqVars, hookLog, mapReaders, mapWriter, slotWriter,
                  dbReads, plast, pcalls, lastGot>>

NextPermConc ==
    \/ \E t \in Threads, scope \in PermScopes :
           PStart(t, "get_scope", scope, {}) /\ UNCHANGED permConcRest
    \/ \E t \in Threads, scope \in PermScopes, perms \in TestPerms :
           PStart(t, "set_scope", scope, perms) /\ UNCHANGED permConcRest
    \/ \E t \in Threads : PGetCheck(t) /\ UNCHANGED permConcRest
    \/ \E t \in Threads, dbFail \in BOOLEAN : PGetLoad(t, dbFail) /\ UNCHANGED permConcRest
    \/ \E t \in Threads : PGetStore(t) /\ UNCHANGED permConcRest
    \/ \E t \in Threads, dbFail \in BOOLEAN : PSetDb(t, dbFail) /\ UNCHANGED permConcRest
    \/ \E t \in Threads, loadFail \in BOOLEAN : PSetWrite(t, loadFail) /\ UNCHANGED permConcRest
    \/ \E t \in Threads : PRet(t) /\ UNCHANGED permConcRest

SpecPermConc == InitP /\ [][NextPermConc]_vars

(***************************************************************************)
(* Claims about the ConfigManager, one call at a time (Spec).              *)
(***************************************************************************)
\* what a get(none, key) issued now returns when its store call succeeds
GetNoneNow(key) ==
    GetGlobal(key, FALSE, CHOOSE row \in get_db(None, key) : TRUE).res

LastSlot == <<last.guild, last.key>>

\* the last call was a get of a guild scope that returned a value or a
\* decoding error, and `ops` are the calls the manager may have run on the slot
GuildGetAgrees(ops) ==
    (/\ last.op = "get"
     /\ last.guild # None
     /\ touched[LastSlot] \in ops
     /\ (last.res.ok \/ last.res.err = "serde"))
    => /\ last.res = GetNoneNow(last.key)
       /\ (global_config[last.key] = None => last.res = Ok(Default(last.key)))

\* C1 as stated: a get(g, k) on a manager that has run no set(g, k, .) returns
\* what get(none, k) returns at that point, the key's default when the store
\* has no global row for k.
C1_NoSetFallsBack == GuildGetAgrees({"none", "reset"})

\* C1 amended: a get(g, k) on a manager that has run neither set(g, k, .) nor
\* reset(g, k) returns what get(none, k) returns at that point, the key's
\* default when the store has no global row for k.
C1_NoWriteFallsBack == GuildGetAgrees({"none"})

C1_Witness ==
    /\ last.op = "get"
    /\ last.guild # None
    /\ touched[LastSlot] = "none"
    /\ last.res.ok
    /\ last.res.val # Default(last.key)
    /\ ncalls >= 2

\* C2: after a successful set(g, k, v), every get(g, k) on the same manager
\* returns v until the next set or reset of (g, k).
C2_GetAfterSet ==
    (/\ last.op = "get"
     /\ IsSome(expect[LastSlot])
     /\ Unwrap(expect[LastSlot]).how = "set_ok"
     /\ Unwrap(expect[LastSlot]).mgr = "same")
    => last.res = Ok(Unwrap(expect[LastSlot]).val)

\* a get of a guild slot after its set, with another value set globally
C2_Witness ==
    /\ last.op = "get"
    /\ last.guild # None
    /\ IsSome(expect[LastSlot])
    /\ Unwrap(expect[LastSlot]).how = "set_ok"
    /\ Unwrap(expect[LastSlot]).mgr = "same"
    /\ IsSome(global_cache[last.key])
    /\ global_cache[last.key] # Some(Unwrap(expect[LastSlot]).val)

\* C3: after a successful set(g, k, v) on one manager, a newly constructed
\* manager reading the same store returns v from get(g, k), for g none and for
\* every guild g (a get that fails does so on the store call only).
C3_RoundTrip ==
    (/\ last.op = "get"
     /\ IsSome(expect[LastSlot])
     /\ Unwrap(expect[LastSlot]).how = "set_ok"
     /\ Unwrap(expect[LastSlot]).mgr = "old")
    => IF last.res.ok THEN last.res.val = Unwrap(expect[LastSlot]).val
       ELSE last.res.err = "store"

\* C4: after a successful reset(g, k) the store holds no row for (g, k) and
\* the next get(g, k) returns the key's default.
C4_ResetGivesDefault ==
    /\ (last.op = "reset" /\ last.res.ok)
       => /\ Row(last.guild, last.key) = None
          /\ CurSlot(last.guild, last.key) = Some(Default(last.key))
    /\ (/\ last.op = "get"
        /\ IsSome(expect[LastSlot])
        /\ Unwrap(expect[LastSlot]).how = "reset_ok"
        /\ Unwrap(expect[LastSlot]).mgr = "same")
       => /\ last.res = Ok(Default(last.key))
          /\ Row(last.guild, last.key) = None

\* a get of a reset guild slot while the global scope holds another value
C4_Witness ==
    /\ last.op = "get"
    /\ last.guild # None
    /\ IsSome(expect[LastSlot])
    /\ Unwrap(expect[LastSlot]).how = "reset_ok"
    /\ Unwrap(expect[LastSlot]).mgr = "same"
    /\ IsSome(global_config[last.key])
    /\ global_cache[last.key] \notin {None, Some(Default(last.key))}

\* C7: when the change-hook fails in set or reset, the call returns the
\* hook's error, the store keeps the written row (or the deletion), the slot
\* keeps the new value, and a following get(g, k) returns the new value.
C7_HookFailureKeepsWrite ==
    /\ (last.op \in {"set", "reset"} /\ last.hooks # <<>> /\ last.hooks[1].failed)
       => /\ last.res = Err("hook")
          /\ Row(last.guild, last.key) =
                 (IF last.op = "set" THEN Some(to_string(Unwrap(last.val))) ELSE None)
          /\ CurSlot(last.guild, last.key) =
                 Some(IF last.op = "set" THEN Unwrap(last.val) ELSE Default(last.key))
    /\ (/\ last.op = "get"
        /\ IsSome(expect[LastSlot])
        /\ Unwrap(expect[LastSlot]).how \in {"set_hook_err", "reset_hook_err"}
        /\ Unwrap(expect[LastSlot]).mgr = "same")
       => last.res = Ok(Unwrap(expect[LastSlot]).val)

\* a get after a set whose hook failed, returning the value that was set
C7_Witness ==
    /\ last.op = "get"
    /\ IsSome(expect[LastSlot])
    /\ Unwrap(expect[LastSlot]).how = "set_hook_err"
    /\ Unwrap(expect[LastSlot]).mgr = "same"
    /\ last.res = Ok(I32(120))

(***************************************************************************)
(* Claims about the ConfigManager under concurrent calls (SpecConc).       *)
(***************************************************************************)
\* threads t and u have each made one call, the same get(g, k) on a guild g,
\* no other call was started, and both have returned a value
TwoColdGets(t, u) ==
    /\ t # u
    /\ nconc = 2
    /\ pc[t] = "idle"
    /\ pc[u] = "idle"
    /\ call[t].op = "get"
    /\ call[t].guild # None
    /\ call[u] = call[t]
    /\ ret[t].ok
    /\ ret[u].ok

\* C5: two threads calling get(g, k) concurrently on a manager whose caches
\* are cold both return the same value, under every interleaving, and one
\* store read (or default materialization) is made.
C5_ColdGetsAgree ==
    \A t, u \in Threads :
        TwoColdGets(t, u) => ret[t] = ret[u] /\ dbReads = 1

C5_Witness ==
    \E t, u \in Threads :
        /\ TwoColdGets(t, u)
        /\ ret[t] = Ok(I32(120))
        /\ dbReads = 1

\* C6: a successful set(g, k, v) invokes the change-hook of k once, with g
\* and v, and at the invocation and until set returns the store row and the
\* slot of (g, k) hold v; get invokes no change-hook.
C6_HookAfterWrite ==
    \A t \in Threads :
        /\ call[t].op = "get" => hookLog[t] = <<>>
        /\ (call[t].op = "set" /\ hookLog[t] # <<>>)
           => /\ Len(hookLog[t]) = 1
              /\ hookLog[t][1].guild = call[t].guild
              /\ hookLog[t][1].key = call[t].key
              /\ hookLog[t][1].val = Unwrap(call[t].val)
              /\ pc[t] # "idle"
                 => /\ Row(call[t].guild, call[t].key) = Some(to_string(Unwrap(call[t].val)))
                    /\ CurSlot(call[t].guild, call[t].key) = call[t].val
        /\ (call[t].op = "set" /\ pc[t] = "idle" /\ ret[t].ok) => Len(hookLog[t]) = 1

\* a set that has run its hook and not yet returned, while another thread is
\* inside a call
C6_Witness ==
    \E t, u \in Threads :
        /\ t # u
        /\ call[t].op = "set"
        /\ call[t].guild # None
        /\ pc[t] = "ret"
        /\ hookLog[t] # <<>>
        /\ pc[u] \notin {"idle", "ret"}

(***************************************************************************)
(* Claims about the PermissionManager, one call at a time (SpecPerm).      *)
(***************************************************************************)
\* C8: get_scope(s) returns the fixed default of the class of s when no row
\* is stored for s ({LogAllVerifications} for GlobalAllGuilds, {Unverify,
\* Whois, Whowas} for GlobalAllUsers, the empty set for the other classes),
\* and exactly the stored bitset when a row is stored.
C8_ScopeDefaults ==
    (plast.op = "get_scope" /\ plast.res.ok)
    => LET row == permissions[to_sql(plast.scope)]
       IN  IF IsSome(row)
           THEN /\ to_bits(plast.res.val) = Unwrap(row)
                /\ plast.res.val \subseteq AllPermissions
           ELSE plast.res.val =
                    (CASE plast.scope[1] = "GlobalAllGuilds" -> {"LogAllVerifications"}
                       [] plast.scope[1] = "GlobalAllUsers" -> {"Unverify", "Whois", "Whowas"}
                       [] plast.scope[1] \in {"User", "Guild", "GuildAllUsers",
                                              "GuildRole", "GuildUser"} -> {})

\* a stored empty row of GlobalAllGuilds is returned as the empty set
C8_Witness ==
    /\ plast.op = "get_scope"
    /\ plast.scope = <<"GlobalAllGuilds">>
    /\ permissions[to_sql(plast.scope)] = Some(0)
    /\ plast.res = Ok({})

\* C9: two calls of get_scope(s) with no set_scope(s, .) between them return
\* the same bitset, whatever calls on other scopes and maintenance calls are
\* made in between.
C9_GetScopeIdempotent ==
    (plast.op = "get_scope" /\ plast.res.ok /\ IsSome(plast.prev))
    => plast.res.val = Unwrap(plast.prev)

\* a repeated get_scope of a guild scope with a stored row, after a call
\* that was neither of the two
C9_Witness ==
    /\ plast.op = "get_scope"
    /\ plast.scope[1] = "Guild"
    /\ plast.res.ok
    /\ plast.res.val # {}
    /\ IsSome(plast.prev)
    /\ pcalls >= 3

\* C10: get_guild_perms(t) is get_scope(GlobalAllGuilds) union
\* get_scope(Guild(t)) union {GuildAdmin, ManageGuildSettings, ManageRoles},
\* so it contains the baseline whatever is stored.
C10_GuildPermsBaseline ==
    (plast.op = "get_guild_perms" /\ plast.res.ok)
    => /\ {"GuildAdmin", "ManageGuildSettings", "ManageRoles"} \subseteq plast.res.val
       /\ IsSome(scope_cache[<<"GlobalAllGuilds">>])
       /\ IsSome(scope_cache[plast.scope])
       /\ plast.res.val =
              Unwrap(scope_cache[<<"GlobalAllGuilds">>]) \cup Unwrap(scope_cache[plast.scope])
              \cup {"GuildAdmin", "ManageGuildSettings", "ManageRoles"}

\* get_guild_perms after both stored scopes were set to the empty set
C10_Witness ==
    /\ plast.op = "get_guild_perms"
    /\ permissions[to_sql(<<"GlobalAllGuilds">>)] = Some(0)
    /\ permissions[to_sql(plast.scope)] = Some(0)
    /\ plast.res = Ok({"GuildAdmin", "ManageGuildSettings", "ManageRoles"})
    /\ pcalls >= 3


\* C15: a get, set or reset whose store call fails (I/O error, or a row that
\* does not decode) returns that error, leaves every cache slot as it was
\* before the call and invokes no change-hook.
C15_StoreErrorKeepsCache ==
    [][LET failed == ~last'.res.ok /\ last'.res.err \in {"store", "serde"}
           storeFails ==
               \E guild \in Scopes, key \in TestKeys :
                   \/ Get(guild, key, TRUE)
                   \/ \E val \in TestValues(key) : Set(guild, key, val, TRUE, FALSE)
                   \/ Reset(guild, key, TRUE, FALSE)
       IN  /\ storeFails => (~last'.res.ok /\ last'.res.err = "store")
           /\ failed => /\ \A guild \in Scopes, key \in KeyNames :
                               CurSlot(guild, key)' = CurSlot(guild, key)
                        /\ last'.hooks = <<>>]_vars

\* a get of a guild scope fails on a global row that does not decode and
\* leaves the global slot unpopulated
C15_Witness ==
    /\ last.op = "get"
    /\ last.guild # None
    /\ last.res = Err("serde")
    /\ last.reads = 1
    /\ global_config[last.key] = Some(Corrupt)
    /\ global_cache[last.key] = None

(***************************************************************************)
(* Claims about the locking of the ConfigManager (SpecConc).               *)
(***************************************************************************)
\* C16: a guild's ConfigCache is inserted once, empty, by a thread that holds
\* the write lock of the map; it is never removed or replaced, and a slot of
\* it changes only by the cache update of a set or reset on that slot, so
\* no installed value is lost to a thread that creates the cache.
C16_OneCachePerGuild ==
    [][\A g \in Guilds :
         /\ (g \notin DOMAIN guild_cache /\ g \in DOMAIN guild_cache')
                => /\ guild_cache'[g] = [k \in KeyNames |-> None]
                   /\ \E t \in Threads : /\ pc[t] = "gc_write"
                                         /\ mapWriter' = t
                                         /\ call[t].guild = Some(g)
         /\ g \in DOMAIN guild_cache
                => /\ g \in DOMAIN guild_cache'
                   /\ \A k \in KeyNames :
                          guild_cache'[g][k] # guild_cache[g][k]
                          => \E t \in Threads : /\ pc[t] = "cache"
                                                /\ pc'[t] # "cache"
                                                /\ slotWriter[<<Some(g), k>>] = t
                                                /\ call[t].op \in {"set", "reset"}
                                                /\ guild_cache'[g][k] = Some(NewVal(call[t]))]_vars

\* a thread that saw no cache for the guild holds the map's write lock after
\* another thread has created the cache and set a value in it
C16_Witness ==
    \E t \in Threads, u \in Threads :
        /\ t # u
        /\ mapWriter = u
        /\ pc[t] = "idle" /\ call[t].op = "set" /\ ret[t].ok
        /\ call[u].guild = call[t].guild
        /\ call[t].guild # None
        /\ CurSlot(call[t].guild, call[t].key) = Some(NewVal(call[t]))

\* the slots a call works on: its own, and for a get the global slot of the
\* key it falls back to
OperatesOn(t) ==
    {CallSlot(t)} \cup (IF call[t].op = "get" THEN {<<None, call[t].key>>} ELSE {})

\* thread t waits for a lock that thread u holds
Blocks(u, t) ==
    \/ pc[t] \in {"gc_check", "gc_read"} /\ mapWriter = u
    \/ pc[t] = "gc_write" /\ (mapWriter = u \/ u \in mapReaders)
    \/ pc[t] \in {"get_read", "lock"} /\ slotWriter[CallSlot(t)] = u
    \/ pc[t] \in {"gget_read", "gget_lock"} /\ slotWriter[<<None, call[t].key>>] = u

\* C17: a thread inside get, set or reset for one slot never blocks a thread
\* that works on a different slot.
C17_SlotsIndependent ==
    \A t \in Threads, u \in Threads :
        (t # u /\ Blocks(u, t)) => OperatesOn(u) \cap OperatesOn(t) # {}

\* thread u waits for the write lock of slot s
WaitingWriter(u, s) ==
    \/ pc[u] = "lock" /\ CallSlot(u) = s
    \/ pc[u] = "gget_lock" /\ s = <<None, call[u].key>>

\* thread t cannot take its next step, a waiting writer keeping new readers
\* out as the locks of parking_lot can do
Stuck(t) ==
    \/ /\ pc[t] \in {"gc_check", "gc_read"}
       /\ (mapWriter # 0 \/ \E u \in Threads \ {t} : pc[u] = "gc_write")
    \/ pc[t] = "gc_write" /\ (mapWriter # 0 \/ mapReaders # {})
    \/ /\ pc[t] = "get_read"
       /\ (slotWriter[CallSlot(t)] # 0
           \/ \E u \in Threads \ {t} : WaitingWriter(u, CallSlot(t)))
    \/ /\ pc[t] = "gget_read"
       /\ (slotWriter[<<None, call[t].key>>] # 0
           \/ \E u \in Threads \ {t} : WaitingWriter(u, <<None, call[t].key>>))
    \/ pc[t] = "lock" /\ slotWriter[CallSlot(t)] # 0
    \/ pc[t] = "gget_lock" /\ slotWriter[<<None, call[t].key>>] # 0

\* the order of the locks: a thread asking for the guild map holds nothing,
\* a thread asking for a slot of a guild holds no slot
LockOrder ==
    \A t \in Threads :
        /\ pc[t] \in {"gc_check", "gc_read", "gc_write"}
               => /\ t \notin mapReaders /\ mapWriter # t
                  /\ \A s \in Slots : slotWriter[s] # t
        /\ (pc[t] \in {"get_read", "lock"} /\ call[t].guild # None)
               => \A s \in Slots : slotWriter[s] # t
        /\ pc[t] \in {"gget_read", "gget_lock"}
               => \A s \in Slots : slotWriter[s] # t

\* C18: every call of get, set or reset returns; the locks are taken in the
\* order guild map, slot of the guild, global slot, and in no state are all
\* the threads inside a call waiting.
C18_EveryCallReturns ==
    /\ [](LockOrder /\ ((\E t \in Threads : pc[t] # "idle")
                        => \E t \in Threads : pc[t] # "idle" /\ ~Stuck(t)))
    /\ \A t \in Threads : (pc[t] # "idle") ~> (pc[t] = "idle")

\* a thread holds the write guard of the guild map while it waits for the
\* global slot, which another thread has locked and is running the hook for
C18_Witness ==
    \E t \in Threads, u \in Threads :
        /\ t # u
        /\ pc[t] = "gget_lock"
        /\ mapWriter = t
        /\ slotWriter[<<None, call[t].key>>] = u
        /\ pc[u] = "hook"

\* C19: set and reset hold the write lock of their slot from before the
\* store write until the change-hook has returned: while a thread holds the
\* lock of a slot no other thread reads or writes the slot, its row or runs
\* its hook, and the lock is given up only when the call returns.
C19_WriteCriticalSection ==
    /\ [](\A t \in Threads :
              pc[t] \in {"db", "cache", "hook"} => slotWriter[CallSlot(t)] = t)
    /\ [][\A s \in Slots, t \in Threads :
              /\ (pc'[t] # pc[t] /\ slotWriter[s] \notin {0, t})
                     => /\ Row(s[1], s[2])' = Row(s[1], s[2])
                        /\ CurSlot(s[1], s[2])' = CurSlot(s[1], s[2])
                        /\ ~(pc[t] = "get_read" /\ CallSlot(t) = s)
                        /\ ~(pc[t] \in {"gget_read", "gget_load"} /\ s = <<None, call[t].key>>)
                        /\ Len(hookLog'[t]) > Len(hookLog[t]) => CallSlot(t) # s
              /\ (slotWriter[s] = t /\ slotWriter'[s] # t)
                     => (pc[t] = "ret" /\ pc'[t] = "idle")]_vars

\* a thread waits for the slot while the thread that wrote the row and the
\* slot is still running the change-hook
C19_Witness ==
    \E t \in Threads, u \in Threads :
        /\ t # u
        /\ pc[t] = "hook"
        /\ slotWriter[CallSlot(t)] = t
        /\ pc[u] \in {"lock", "get_read"}
        /\ CallSlot(u) = CallSlot(t)
        /\ CurSlot(call[t].guild, call[t].key) = Some(NewVal(call[t]))
        /\ call[t].op = "set" => Row(call[t].guild, call[t].key) = Some(to_string(NewVal(call[t])))

\* C20: a populated slot whose lock no writer holds contains the value of
\* the row of its (scope, key), or the default of the key when there is no
\* row; a slot of a guild is populated or changed only by the cache update of
\* a set or reset on that guild, never by a get.
C20_CacheCoherent ==
    /\ [](\A s \in Slots :
              (IsSome(CurSlot(s[1], s[2])) /\ slotWriter[s] = 0)
              => IF IsSome(Row(s[1], s[2]))
                 THEN from_str(KeyType(s[2]), Unwrap(Row(s[1], s[2])))
                          = Ok(Unwrap(CurSlot(s[1], s[2])))
                 ELSE Unwrap(CurSlot(s[1], s[2])) = Default(s[2]))
    /\ [][\A g \in Guilds, k \in KeyNames :
              CurSlot(Some(g), k)' # CurSlot(Some(g), k)
              => \E t \in Threads : /\ pc[t] = "cache"
                                    /\ pc'[t] # pc[t]
                                    /\ call[t].op \in {"set", "reset"}
                                    /\ call[t].guild = Some(g)]_vars

\* the global slot was filled by a get from a stored row and a slot of a
\* guild by a set, and no call is running
C20_Witness ==
    /\ \A t \in Threads : pc[t] = "idle"
    /\ dbReads = 1
    /\ global_config["TokenValiditySeconds"] = Some(to_string(I32(120)))
    /\ global_cache["TokenValiditySeconds"] = Some(I32(120))
    /\ \E g \in Guilds, k \in TestKeys :
           /\ IsSome(CurSlot(Some(g), k))
           /\ IsSome(Row(Some(g), k))

(***************************************************************************)
(* Claims about the permissions of users (SpecUser).                       *)
(***************************************************************************)
\* the guild and the user of the last get_user_perms call
LastGuild == plast.scope[2]
LastUser == plast.scope[Len(plast.scope)]

\* the union of the cached scopes get_user_perms starts from
HeldGuildPerms ==
    Unwrap(scope_cache[<<"GuildAllUsers", LastGuild>>])
    \cup Unwrap(scope_cache[<<"GuildUser", LastGuild, LastUser>>])
    \cup UNION {Unwrap(scope_cache[<<"GuildRole", LastGuild, Unwrap(plast.dir.member)[i]>>]) :
                   i \in 1..Len(Unwrap(plast.dir.member))}

\* C11: in the same permission state and with the same roles, get_user_perms
\* for the owner of the guild gives a superset of (or the same set as) what
\* it gives for a user who is not the owner.
C11_OwnerSuperset ==
    (plast.op = "get_user_perms" /\ plast.res.ok /\ plast.alt.ok)
    => IF plast.dir.owner
       THEN plast.alt.val \subseteq plast.res.val
       ELSE plast.res.val \subseteq plast.alt.val

\* a member with a role who is not the owner gets strictly less than the owner
C11_Witness ==
    /\ plast.op = "get_user_perms"
    /\ ~plast.dir.owner
    /\ plast.dir.member # None /\ Len(Unwrap(plast.dir.member)) >= 1
    /\ plast.res.ok /\ plast.alt.ok
    /\ plast.res.val # plast.alt.val
    /\ plast.res.val \subseteq plast.alt.val

\* C12: get_user_global_perms(u) is the complement of {LogAllVerifications}
\* when get_scope(GlobalAllUsers) union get_scope(User(u)) contains BotAdmin
\* and that union minus {LogAllVerifications} otherwise; no result of
\* get_user_global_perms or get_user_perms contains LogAllVerifications.
C12_GlobalPermsNoGuildOnly ==
    (plast.op \in {"get_user_global_perms", "get_user_perms"} /\ plast.res.ok)
    => /\ "LogAllVerifications" \notin plast.res.val
       /\ plast.op = "get_user_global_perms" =>
              LET P == Unwrap(scope_cache[<<"GlobalAllUsers">>])
                       \cup Unwrap(scope_cache[<<"User", LastUser>>])
              IN  plast.res.val = IF "BotAdmin" \in P
                                  THEN AllPermissions \ {"LogAllVerifications"}
                                  ELSE P \ {"LogAllVerifications"}

\* a bot admin whose scopes hold LogAllVerifications gets all but that bit
C12_Witness ==
    /\ plast.op = "get_user_global_perms"
    /\ plast.res.ok
    /\ "BotAdmin" \in Unwrap(scope_cache[<<"User", LastUser>>])
    /\ "LogAllVerifications" \in Unwrap(scope_cache[<<"User", LastUser>>])
    /\ Cardinality(plast.res.val) = Len(BotPermission) - 1

\* C14: for a user who is neither the owner nor a guild admin through
\* GuildAllUsers, GuildUser or a held GuildRole, the set fed into the global
\* layering is a subset of get_guild_perms(t); and whenever get_user_perms(t, u)
\* does not contain BotAdmin it is a subset of get_user_global_perms(u) union
\* get_guild_perms(t).
C14_GuildCap ==
    (plast.op = "get_user_perms" /\ plast.res.ok)
    => LET tenant == GetGuildPermsIn(scope_cache, LastGuild, FALSE, FALSE).res.val
           global == GetUserRawIn(scope_cache, LastUser, {}, NoScope).res.val
       IN  /\ (~plast.dir.owner /\ "GuildAdmin" \notin HeldGuildPerms)
                  => plast.capped \subseteq tenant
           /\ "BotAdmin" \notin plast.res.val
                  => plast.res.val \subseteq (global \cup tenant)

\* the cap removes bits the user holds in the guild but the guild does not
C14_Witness ==
    /\ plast.op = "get_user_perms"
    /\ plast.res.ok
    /\ ~plast.dir.owner
    /\ "GuildAdmin" \notin HeldGuildPerms
    /\ "BotAdmin" \in HeldGuildPerms
    /\ "BotAdmin" \notin plast.res.val
    /\ plast.capped # HeldGuildPerms

(***************************************************************************)
(* Claims about the PermissionManager under concurrent calls               *)
(* (SpecPermConc).                                                         *)
(***************************************************************************)
\* C13: once every call of get_scope and set_scope has returned, the bitset
\* cached for a scope is the bitset stored for it, or the default of its
\* class when no row is stored.
C13_CacheMatchesStore ==
    (\A t \in Threads : pc[t] = "idle")
    => \A scope \in PermScopes :
           IsSome(scope_cache[scope])
           => LET row == permissions[to_sql(scope)]
                  val == Unwrap(scope_cache[scope])
              IN  IF IsSome(row) THEN to_bits(val) = Unwrap(row)
                  ELSE val = (CASE scope[1] = "GlobalAllGuilds" -> {"LogAllVerifications"}
                                [] scope[1] = "GlobalAllUsers" -> {"Unverify", "Whois", "Whowas"}
                                [] OTHER -> {})

====
